---- MODULE Spec2Model ----
(***************************************************************************)
(* whoosh/analysis.py: tokenizers, filters and analyzers.                  *)
(*                                                                         *)
(* A pipeline is one tokenizer generator wrapped by a chain of filter      *)
(* generators.  Every generator is modelled as a frame with a program      *)
(* counter that is resumed by next() from its consumer and suspended at    *)
(* each yield; all stages share the one mutable Token the tokenizer made.  *)
(* Text is a sequence of one-character strings.                            *)
(***************************************************************************)
EXTENDS Integers, Sequences, FiniteSets, TLC

VARIABLES
    inst,     \* the constructed analyzer / pipeline instance
    value,    \* text handed to the current invocation (after IDAnalyzer's strip)
    flags,    \* positions, chars, start_pos, start_char of the invocation
    tok,      \* the Token object of the current invocation
    frames,   \* generator frames: 1 = tokenizer, 2.. = filters
    ctl,      \* where control is and what is being handed over
    cache,    \* StemFilter.cache (a set of <<word, stem>> pairs)
    src,      \* history: token states yielded by the tokenizer
    out,      \* history: what the consumer has pulled so far
    err,      \* exception that ended the current invocation ("" if none)
    runs,     \* invocations made on this instance
    stemmed,  \* history: words stem() was called on in this invocation
    first     \* history: what the first invocation was given and returned

vars == <<inst, value, flags, tok, frames, ctl, cache, src, out, err, runs, stemmed,
          first>>

----------------------------------------------------------------------------
(* Bounds of the model *)

MaxLen == 4
MaxRuns == 2
MaxSize == 3
MaxStart == 1
MaxChainLen == 3

----------------------------------------------------------------------------
(* Characters and str methods *)

LowerSeq == <<"a","b","c","d","e","f","g","h","i","j","k","l","m",
              "n","o","p","q","r","s","t","u","v","w","x","y","z">>
UpperSeq == <<"A","B","C","D","E","F","G","H","I","J","K","L","M",
              "N","O","P","Q","R","S","T","U","V","W","X","Y","Z">>
Lower == {LowerSeq[i] : i \in 1..Len(LowerSeq)}
Upper == {UpperSeq[i] : i \in 1..Len(UpperSeq)}
Digit == {"0","1","2","3","4","5","6","7","8","9"}
White == {" ", "\t", "\r", "\n"}
WordChar == Lower \cup Upper \cup Digit \cup {"_"}

LowerChar(c) ==
    IF c \in Upper THEN LowerSeq[CHOOSE i \in 1..Len(UpperSeq) : UpperSeq[i] = c]
    ELSE c

\* str.lower()
StrLower(s) == [i \in 1..Len(s) |-> LowerChar(s[i])]

\* str.islower(): at least one cased character and no upper-case one
IsLower(s) == /\ \E i \in 1..Len(s) : s[i] \in Lower
              /\ \A i \in 1..Len(s) : s[i] \notin Upper

\* str.isupper(): at least one cased character and no lower-case one
IsUpper(s) == /\ \E i \in 1..Len(s) : s[i] \in Upper
              /\ \A i \in 1..Len(s) : s[i] \notin Lower

\* str.isdigit(): non-empty and only digits
IsDigit(s) == /\ Len(s) > 0
              /\ \A i \in 1..Len(s) : s[i] \in Digit

\* s[a:b] for 0 <= a, with Python's clipping of b
Slice(s, a, b) == SubSeq(s, a + 1, IF b > Len(s) THEN Len(s) ELSE b)

\* str.strip()
StrStrip(s) ==
    LET I == {i \in 1..Len(s) : s[i] \notin White}
    IN IF I = {} THEN <<>>
       ELSE SubSeq(s, CHOOSE i \in I : \A j \in I : i <= j,
                      CHOOSE i \in I : \A j \in I : i >= j)

----------------------------------------------------------------------------
(* re: finditer of the module's patterns.  A match is [s |-> start,        *)
(* e |-> end], 0-based and end-exclusive as match.start() / match.end().   *)

\* end of the maximal run of characters of class C that starts at 0-based i
RECURSIVE RunEnd(_, _, _)
RunEnd(s, i, C) ==
    IF i < Len(s) /\ s[i + 1] \in C THEN RunEnd(s, i + 1, C) ELSE i

\* finditer of "C+" for a character class C
RECURSIVE ClassMatches(_, _, _)
ClassMatches(s, i, C) ==
    IF i >= Len(s) THEN <<>>
    ELSE IF s[i + 1] \in C
         THEN LET e == RunEnd(s, i, C)
              IN <<[s |-> i, e |-> e]>> \o ClassMatches(s, e, C)
         ELSE ClassMatches(s, i + 1, C)

AllChars == WordChar \cup White \cup {",", "-", "."}

\* RegexTokenizer._default_expression: \w+
WordMatches(s) == ClassMatches(s, 0, WordChar)
\* SpaceSeparatedTokenizer._default_expression: [^ \t\r\n]+
SpaceMatches(s) == ClassMatches(s, 0, AllChars \ White)
\* CommaSeparatedTokenizer._default_expression: [^,]+
CommaMatches(s) == ClassMatches(s, 0, AllChars \ {","})

\* finditer of [A-Z][a-z]*|[a-z]+|[0-9]+ : the alternatives are tried in
\* order at each position, each one greedy
RECURSIVE CamelMatches(_, _)
CamelMatches(s, i) ==
    IF i >= Len(s) THEN <<>>
    ELSE LET c == s[i + 1]
             e == IF c \in Upper THEN RunEnd(s, i + 1, Lower)
                  ELSE IF c \in Lower THEN RunEnd(s, i, Lower)
                  ELSE IF c \in Digit THEN RunEnd(s, i, Digit)
                  ELSE i
         IN IF e > i THEN <<[s |-> i, e |-> e]>> \o CamelMatches(s, e)
            ELSE CamelMatches(s, i + 1)

_camel_exp(s) == CamelMatches(s, 0)
_underscore_exp(s) == CamelMatches(s, 0)

----------------------------------------------------------------------------
(* Token *)

\* a Token before any attribute is assigned; has = the attributes that are set
\* (reading a slot that was never assigned raises AttributeError)
NoToken ==
    [has |-> {}, positions |-> FALSE, chars |-> FALSE, boosts |-> FALSE,
     original |-> <<>>, text |-> <<>>, pos |-> 0, startchar |-> 0,
     endchar |-> 0, stopped |-> FALSE, boost |-> 0]

\* Token.__init__(positions, chars, boosts = False)
TokenInit(positions, chars) ==
    [NoToken EXCEPT !.has = {"positions", "chars", "boosts", "stopped", "boost"},
                    !.positions = positions, !.chars = chars,
                    !.boosts = FALSE, !.stopped = FALSE, !.boost = 1]

----------------------------------------------------------------------------
(* STOP_WORDS *)

STOP_WORDS ==
    { <<"t","h","e">>, <<"t","o">>, <<"o","f">>, <<"a">>, <<"a","n","d">>,
      <<"i","s">>, <<"i","n">>, <<"t","h","i","s">>, <<"y","o","u">>,
      <<"f","o","r">>, <<"b","e">>, <<"o","n">>, <<"o","r">>,
      <<"w","i","l","l">>, <<"i","f">>, <<"c","a","n">>, <<"a","r","e">>,
      <<"t","h","a","t">>, <<"b","y">>, <<"w","i","t","h">>, <<"i","t">>,
      <<"a","s">>, <<"f","r","o","m">>, <<"a","n">>, <<"w","h","e","n">>,
      <<"n","o","t">>, <<"m","a","y">>, <<"t","b","d">>, <<"y","e","t">> }

\* an optional collection argument: None, or a collection of words
NoneWords == [some |-> FALSE, set |-> {}]
Words(S) == [some |-> TRUE, set |-> S]

----------------------------------------------------------------------------
(* Constructors.  A stage is [kind, min, max, words, args]; args are the   *)
(* sizes the constructor was called with; maxsize = 0 stands for an        *)
(* omitted (None) or zero maxsize, both false in "maxsize or minsize".     *)

Stage(kind) == [kind |-> kind, min |-> 0, max |-> 0, words |-> {}, args |-> <<>>]

\* mutant: a maxsize below minsize is raised to minsize
NgramTokenizerInit_Clamp(minsize, maxsize) ==
    [Stage("NgramTokenizer") EXCEPT
        !.min = minsize,
        !.max = IF maxsize < minsize THEN minsize ELSE maxsize,
        !.args = <<minsize, maxsize>>]

\* NgramTokenizer.__init__
NgramTokenizerInit(minsize, maxsize) ==
    [Stage("NgramTokenizer") EXCEPT
        !.min = minsize,
        !.max = IF maxsize = 0 THEN minsize ELSE maxsize,
        !.args = <<minsize, maxsize>>]

\* NgramFilter.__init__
NgramFilterInit(minsize, maxsize) ==
    [Stage("NgramFilter") EXCEPT
        !.min = minsize,
        !.max = IF maxsize = 0 THEN minsize ELSE maxsize,
        !.args = <<minsize, maxsize>>]

\* StemFilter.__init__
StemFilterInit(ignore) ==
    [Stage("StemFilter") EXCEPT
        !.words = IF ignore.some THEN ignore.set ELSE {}]

\* StopFilter.__init__
StopFilterInit(stoplist, minsize) ==
    [Stage("StopFilter") EXCEPT
        !.words = IF stoplist.some THEN stoplist.set ELSE {},
        !.min = minsize]

\* an instance: a tokenizer and the filters applied to it, innermost first;
\* strip: IDAnalyzer.strip; offsets: whether __call__ takes start_pos and
\* start_char; made: construction returned an object
Pipeline(name, tokenizer, filters) ==
    [name |-> name, tokenizer |-> tokenizer, filters |-> filters,
     strip |-> FALSE, offsets |-> TRUE, made |-> TRUE]

NoInst == [Pipeline("", Stage(""), <<>>) EXCEPT !.made = FALSE]

IDAnalyzerInit(strip) ==
    [Pipeline("IDAnalyzer", Stage("IDTokenizer"), <<>>) EXCEPT !.strip = strip]

SpaceSeparatedAnalyzerInit ==
    Pipeline("SpaceSeparatedAnalyzer", Stage("SpaceSeparatedTokenizer"), <<>>)

CommaSeparatedAnalyzerInit ==
    Pipeline("CommaSeparatedAnalyzer", Stage("CommaSeparatedTokenizer"), <<>>)

SimpleAnalyzerInit ==
    Pipeline("SimpleAnalyzer", Stage("RegexTokenizer"), <<Stage("LowerCaseFilter")>>)

\* mutant: the stop filter is applied before the lowercase filter
StandardAnalyzerInit_StopFirst(stoplist, minsize) ==
    Pipeline("StandardAnalyzer", Stage("RegexTokenizer"),
             <<IF ~stoplist.some THEN Stage("PassFilter")
               ELSE StopFilterInit(stoplist, minsize),
               Stage("LowerCaseFilter")>>)

StandardAnalyzerInit(stoplist, minsize) ==
    Pipeline("StandardAnalyzer", Stage("RegexTokenizer"),
             <<Stage("LowerCaseFilter"),
               IF ~stoplist.some THEN Stage("PassFilter")
               ELSE StopFilterInit(stoplist, minsize)>>)

FancyAnalyzerInit(stoplist, minsize) ==
    Pipeline("FancyAnalyzer", Stage("RegexTokenizer"),
             <<Stage("CamelFilter"), Stage("LowerCaseFilter"),
               Stage("UnderscoreFilter"), StopFilterInit(stoplist, minsize)>>)

NgramAnalyzerInit(minsize, maxsize) ==
    [Pipeline("NgramAnalyzer", NgramTokenizerInit(minsize, maxsize),
              <<Stage("LowerCaseFilter")>>) EXCEPT !.offsets = FALSE]

----------------------------------------------------------------------------
(* Generator frames and control *)

\* what a generator hands to its consumer: the Token object, or a bare str
NoItem == [kind |-> "none", val |-> <<>>]
TokItem == [kind |-> "tok", val |-> <<>>]
StrItem(s) == [kind |-> "str", val |-> s]

\* a frame not yet started; text, chars, oldstart, k are the generator's locals
NewFrame ==
    [pc |-> "start", item |-> NoItem, text |-> <<>>, chars |-> FALSE,
     oldstart |-> 0, k |-> 0]

NStages == Len(inst.filters) + 1
Consumer == NStages + 1
KindAt(i) == IF i = 1 THEN inst.tokenizer.kind ELSE inst.filters[i - 1].kind
StageAt(i) == IF i = 1 THEN inst.tokenizer ELSE inst.filters[i - 1]

\* next() on the upstream generator
Up(i) == [at |-> i - 1, msg |-> "next", item |-> NoItem]
\* yield
Down(i, it) == [at |-> i + 1, msg |-> "item", item |-> it]
\* the generator returns: StopIteration
StopDown(i) == [at |-> i + 1, msg |-> "stop", item |-> NoItem]
Idle == [at |-> Consumer, msg |-> "idle", item |-> NoItem]
Raised == [at |-> Consumer, msg |-> "raise", item |-> NoItem]
AllDone == [i \in 1..NStages |-> [frames[i] EXCEPT !.pc = "done"]]

----------------------------------------------------------------------------
(* Construction, invocation, the consumer *)

\* nothing has been invoked yet
NoFirst == [set |-> FALSE, value |-> <<>>,
            flags |-> [positions |-> FALSE, chars |-> FALSE, start_pos |-> 0,
                       start_char |-> 0, offs |-> FALSE],
            out |-> <<>>, err |-> "", done |-> FALSE]

Init ==
    /\ inst = NoInst
    /\ value = <<>>
    /\ flags = [positions |-> FALSE, chars |-> FALSE, start_pos |-> 0,
                start_char |-> 0, offs |-> FALSE]
    /\ tok = NoToken
    /\ frames = <<>>
    /\ ctl = [at |-> 0, msg |-> "idle", item |-> NoItem]
    /\ cache = <<>>
    /\ src = <<>>
    /\ out = <<>>
    /\ err = ""
    /\ runs = 0
    /\ stemmed = <<>>
    /\ first = NoFirst

\* the caller constructs one of the instances in Insts; every StemFilter
\* starts with an empty cache
Construct(Insts) ==
    /\ ~inst.made
    /\ \E p \in Insts :
        /\ inst' = p
        /\ cache' = [i \in 1..(Len(p.filters) + 1) |-> {}]
        /\ ctl' = [at |-> Len(p.filters) + 2, msg |-> "stop", item |-> NoItem]
    /\ UNCHANGED <<first, value, flags, tok, frames, src, out, err, runs, stemmed>>

\* analyzer(value, **kwargs): builds the chain of generators; nothing runs
\* until the first next().  The consumer may abandon the previous traversal
\* at any pull boundary.  fl.offs: start_pos / start_char are passed.
\* At most n invocations are made on the instance.
Call(v, fl) ==
    /\ flags' = fl
    /\ value' = IF inst.strip THEN StrStrip(v) ELSE v
    /\ IF fl.offs /\ ~inst.offsets
       THEN /\ err' = "TypeError"
            /\ ctl' = Raised
            /\ frames' = [i \in 1..NStages |-> [NewFrame EXCEPT !.pc = "done"]]
       ELSE /\ err' = ""
            /\ ctl' = Idle
            /\ frames' = [i \in 1..NStages |-> NewFrame]
    /\ tok' = NoToken
    /\ src' = <<>>
    /\ out' = <<>>
    /\ stemmed' = <<>>
    /\ runs' = runs + 1
    /\ UNCHANGED <<inst, cache>>

Invoke(Vals, Flags, n) ==
    /\ inst.made
    /\ ctl.at = Consumer
    /\ ctl.msg \in {"idle", "stop", "raise"}
    /\ runs < n
    /\ \E v \in Vals, fl \in Flags : Call(v, fl)
    /\ UNCHANGED first

\* a later invocation on the same instance, made while the caller still
\* remembers what the first invocation was given and what it had returned
\* when it was left (done: it was traversed to its end)
InvokeAgain(Vals, Flags, n) ==
    /\ inst.made
    /\ ctl.at = Consumer
    /\ ctl.msg \in {"idle", "stop", "raise"}
    /\ runs >= 1
    /\ runs < n
    /\ \E v \in Vals, fl \in Flags : Call(v, fl)
    /\ first' = IF first.set THEN first
                ELSE [set |-> TRUE, value |-> value, flags |-> flags, out |-> out,
                      err |-> err, done |-> ctl.msg \in {"stop", "raise"}]

\* the consumer calls next() on the outermost generator
ConsumerPull ==
    /\ inst.made
    /\ ctl.at = Consumer
    /\ ctl.msg = "idle"
    /\ runs > 0
    /\ ctl' = [at |-> NStages, msg |-> "next", item |-> NoItem]
    /\ UNCHANGED <<inst, first, value, flags, tok, frames, cache, src, out, err, runs, stemmed>>

\* what the consumer sees of a pulled element: the object it is, for the
\* Token the attribute values at this moment, and (k) how many tokens the
\* tokenizer has yielded by now
Seen(it, t) == [kind |-> it.kind, val |-> it.val,
                t |-> IF it.kind = "tok" THEN t ELSE NoToken,
                k |-> Len(src)]

\* the consumer's loop body reads the element it was handed
ConsumerTake ==
    /\ inst.made
    /\ ctl.at = Consumer
    /\ ctl.msg = "item"
    /\ out' = Append(out, Seen(ctl.item, tok))
    /\ ctl' = Idle
    /\ UNCHANGED <<inst, first, value, flags, tok, frames, cache, src, err, runs, stemmed>>

\* an exception raised in a generator ends every generator downstream of it
RaiseErr(name) ==
    /\ err' = name
    /\ ctl' = Raised
    /\ frames' = AllDone

----------------------------------------------------------------------------
(* Tokenizers *)

\* IDTokenizer: the body up to its only yield
IDToken(val, fl) ==
    LET t0 == TokenInit(fl.positions, fl.chars)
        t1 == [t0 EXCEPT !.original = val, !.text = val,
                         !.has = @ \cup {"original", "text"}]
        t2 == IF fl.positions
              THEN [t1 EXCEPT !.pos = fl.start_pos + 1, !.has = @ \cup {"pos"}]
              ELSE t1
    IN IF fl.chars
       THEN [t2 EXCEPT !.startchar = fl.start_char,
                       !.endchar = fl.start_char + Len(val),
                       !.has = @ \cup {"startchar", "endchar"}]
       ELSE t2

IDTokenizerStep ==
    /\ ctl.at = 1 /\ ctl.msg = "next"
    /\ inst.tokenizer.kind = "IDTokenizer"
    /\ IF frames[1].pc = "start"
       THEN /\ tok' = IDToken(value, flags)
            /\ src' = Append(src, tok')
            /\ frames' = [frames EXCEPT ![1].pc = "run"]
            /\ ctl' = Down(1, TokItem)
       ELSE /\ frames' = [frames EXCEPT ![1].pc = "done"]
            /\ ctl' = StopDown(1)
            /\ UNCHANGED <<tok, src>>
    /\ UNCHANGED <<inst, first, value, flags, cache, out, err, runs, stemmed>>

\* self.expression.finditer(value) for the tokenizer class
Expression(kind, val) ==
    IF kind = "SpaceSeparatedTokenizer" THEN SpaceMatches(val)
    ELSE IF kind = "CommaSeparatedTokenizer" THEN CommaMatches(val)
    ELSE WordMatches(val)

\* mutant: endchar is taken one past the end of the match
MatchToken_EndPlusOne(t, text, m, pos, fl) ==
    LET t1 == [t EXCEPT !.original = text, !.text = text, !.stopped = FALSE,
                        !.has = @ \cup {"original", "text"}]
        t2 == IF fl.positions
              THEN [t1 EXCEPT !.pos = fl.start_pos + pos, !.has = @ \cup {"pos"}]
              ELSE t1
    IN IF fl.chars
       THEN [t2 EXCEPT !.startchar = fl.start_char + m.s,
                       !.endchar = fl.start_char + m.e + 1,
                       !.has = @ \cup {"startchar", "endchar"}]
       ELSE t2

\* the assignments of one iteration of the tokenizers' for loops: text is
\* match.group(0) (stripped by the comma tokenizer), pos the enumerate index
MatchToken(t, text, m, pos, fl) ==
    LET t1 == [t EXCEPT !.original = text, !.text = text, !.stopped = FALSE,
                        !.has = @ \cup {"original", "text"}]
        t2 == IF fl.positions
              THEN [t1 EXCEPT !.pos = fl.start_pos + pos, !.has = @ \cup {"pos"}]
              ELSE t1
    IN IF fl.chars
       THEN [t2 EXCEPT !.startchar = fl.start_char + m.s,
                       !.endchar = fl.start_char + m.e,
                       !.has = @ \cup {"startchar", "endchar"}]
       ELSE t2

\* RegexTokenizer.__call__ (also SpaceSeparatedTokenizer's)
RegexTokenizerStep ==
    /\ ctl.at = 1 /\ ctl.msg = "next"
    /\ inst.tokenizer.kind \in {"RegexTokenizer", "SpaceSeparatedTokenizer"}
    /\ LET f == frames[1]
           t0 == IF f.pc = "start" THEN TokenInit(flags.positions, flags.chars) ELSE tok
           ms == Expression(inst.tokenizer.kind, value)
       IN IF f.k < Len(ms)
          THEN LET m == ms[f.k + 1] IN
               /\ tok' = MatchToken(t0, Slice(value, m.s, m.e), m, f.k, flags)
               /\ src' = Append(src, tok')
               /\ frames' = [frames EXCEPT ![1].pc = "run", ![1].k = f.k + 1]
               /\ ctl' = Down(1, TokItem)
          ELSE /\ tok' = t0
               /\ frames' = [frames EXCEPT ![1].pc = "done"]
               /\ ctl' = StopDown(1)
               /\ UNCHANGED src
    /\ UNCHANGED <<inst, first, value, flags, cache, out, err, runs, stemmed>>

\* CommaSeparatedTokenizer.__call__
CommaSeparatedTokenizerStep ==
    /\ ctl.at = 1 /\ ctl.msg = "next"
    /\ inst.tokenizer.kind = "CommaSeparatedTokenizer"
    /\ LET f == frames[1]
           t0 == IF f.pc = "start" THEN TokenInit(flags.positions, flags.chars) ELSE tok
           ms == Expression(inst.tokenizer.kind, value)
       IN IF f.k < Len(ms)
          THEN LET m == ms[f.k + 1] IN
               /\ tok' = MatchToken(t0, StrStrip(Slice(value, m.s, m.e)), m, f.k, flags)
               /\ src' = Append(src, tok')
               /\ frames' = [frames EXCEPT ![1].pc = "run", ![1].k = f.k + 1]
               /\ ctl' = Down(1, TokItem)
          ELSE /\ tok' = t0
               /\ frames' = [frames EXCEPT ![1].pc = "done"]
               /\ ctl' = StopDown(1)
               /\ UNCHANGED src
    /\ UNCHANGED <<inst, first, value, flags, cache, out, err, runs, stemmed>>

\* xrange(0, n): the number of iterations
XRange(n) == IF n > 0 THEN n ELSE 0

\* the (start, end) pairs at which the two nested n-gram loops reach their
\* yield, in loop order: start in xrange(0, nstarts), size in
\* xrange(min, max + 1), skipping end > len
RECURSIVE NgramLoop(_, _, _, _, _, _)
NgramLoop(len, nstarts, min, max, start, size) ==
    IF start >= nstarts THEN <<>>
    ELSE IF size > max THEN NgramLoop(len, nstarts, min, max, start + 1, min)
    ELSE IF start + size > len THEN NgramLoop(len, nstarts, min, max, start, size + 1)
    ELSE <<[s |-> start, e |-> start + size]>>
         \o NgramLoop(len, nstarts, min, max, start, size + 1)

\* NgramTokenizer.__call__: for start in xrange(0, inlen - self.min)
NgramTokenizerStarts(inlen, min) == XRange(inlen - min)

NgramTokenizerSpans(inlen, min, max) ==
    NgramLoop(inlen, NgramTokenizerStarts(inlen, min), min, max, 0, min)

\* mutant: pos is advanced with every gram
NgramToken_PosPerGram(t, g, fl) ==
    LET t1 == [t EXCEPT !.stopped = FALSE]
        t2 == IF fl.positions
              THEN [t1 EXCEPT !.pos = fl.start_pos + g.e - 1, !.has = @ \cup {"pos"}]
              ELSE t1
    IN IF fl.chars
       THEN [t2 EXCEPT !.startchar = fl.start_char + g.s,
                       !.endchar = fl.start_char + g.e,
                       !.has = @ \cup {"startchar", "endchar"}]
       ELSE t2

\* the assignments of the inner loop body of NgramTokenizer.__call__; text and
\* original are not assigned; pos has been incremented once per start
NgramToken(t, g, fl) ==
    LET t1 == [t EXCEPT !.stopped = FALSE]
        t2 == IF fl.positions
              THEN [t1 EXCEPT !.pos = fl.start_pos + g.s, !.has = @ \cup {"pos"}]
              ELSE t1
    IN IF fl.chars
       THEN [t2 EXCEPT !.startchar = fl.start_char + g.s,
                       !.endchar = fl.start_char + g.e,
                       !.has = @ \cup {"startchar", "endchar"}]
       ELSE t2

NgramTokenizerStep ==
    /\ ctl.at = 1 /\ ctl.msg = "next"
    /\ inst.tokenizer.kind = "NgramTokenizer"
    /\ LET f == frames[1]
           t0 == IF f.pc = "start" THEN TokenInit(flags.positions, flags.chars) ELSE tok
           gs == NgramTokenizerSpans(Len(value), inst.tokenizer.min, inst.tokenizer.max)
       IN IF f.k < Len(gs)
          THEN /\ tok' = NgramToken(t0, gs[f.k + 1], flags)
               /\ src' = Append(src, tok')
               /\ frames' = [frames EXCEPT ![1].pc = "run", ![1].k = f.k + 1]
               /\ ctl' = Down(1, TokItem)
          ELSE /\ tok' = t0
               /\ frames' = [frames EXCEPT ![1].pc = "done"]
               /\ ctl' = StopDown(1)
               /\ UNCHANGED src
    /\ UNCHANGED <<inst, first, value, flags, cache, out, err, runs, stemmed>>

----------------------------------------------------------------------------
(* Filters.  A filter at stage i is resumed either by next() from stage    *)
(* i + 1 or by what stage i - 1 hands down to its for loop.                *)

FilterAt(kind) ==
    /\ inst.made
    /\ ctl.at \in 2..NStages
    /\ KindAt(ctl.at) = kind

\* "for t in tokens" asks the upstream generator for its next element
PullUp(i) ==
    /\ frames' = [frames EXCEPT ![i].pc = "for"]
    /\ ctl' = Up(i)
    /\ UNCHANGED <<tok, cache, err, stemmed>>

\* mutant: a generator that ends marks the Token as stopped
Finish_Stopped(i) ==
    /\ frames' = [frames EXCEPT ![i].pc = "done"]
    /\ ctl' = StopDown(i)
    /\ tok' = [tok EXCEPT !.stopped = TRUE]
    /\ UNCHANGED <<cache, err, stemmed>>

\* the upstream generator is exhausted: the for loop and the generator end
Finish(i) ==
    /\ frames' = [frames EXCEPT ![i].pc = "done"]
    /\ ctl' = StopDown(i)
    /\ UNCHANGED <<tok, cache, err, stemmed>>

\* reading attribute a of the element x handed down: a str has none of the
\* Token's attributes, and a slot never assigned is not readable
Readable(x, t, a) == x.kind = "tok" /\ a \in t.has

\* PassFilter
PassFilterStep ==
    /\ FilterAt("PassFilter")
    /\ LET i == ctl.at IN
       IF ctl.msg = "next" THEN PullUp(i)
       ELSE IF ctl.msg = "stop" THEN Finish(i)
       ELSE /\ ctl' = Down(i, ctl.item)
            /\ UNCHANGED <<tok, frames, cache, err, stemmed>>
    /\ UNCHANGED <<inst, first, value, flags, src, out, runs>>

\* A stop-word filter of the caller's that marks the tokens whose text is in
\* words as stopped and hands every token on (Token.stopped); the module's
\* own StopFilter removes tokens and never sets the flag.
MarkStoppedInit(words) == [Stage("MarkStopped") EXCEPT !.words = words]

MarkStoppedStep ==
    /\ FilterAt("MarkStopped")
    /\ LET i == ctl.at IN
       IF ctl.msg = "next" THEN PullUp(i)
       ELSE IF ctl.msg = "stop" THEN Finish(i)
       ELSE IF ~Readable(ctl.item, tok, "text")
       THEN RaiseErr("AttributeError") /\ UNCHANGED <<tok, cache, stemmed>>
       ELSE /\ tok' = IF tok.text \in StageAt(i).words
                      THEN [tok EXCEPT !.stopped = TRUE]
                      ELSE tok
            /\ ctl' = Down(i, ctl.item)
            /\ UNCHANGED <<frames, cache, err, stemmed>>
    /\ UNCHANGED <<inst, first, value, flags, src, out, runs>>

\* LowerCaseFilter
LowerCaseFilterStep ==
    /\ FilterAt("LowerCaseFilter")
    /\ LET i == ctl.at IN
       IF ctl.msg = "next" THEN PullUp(i)
       ELSE IF ctl.msg = "stop" THEN Finish(i)
       ELSE IF ~Readable(ctl.item, tok, "text")
       THEN RaiseErr("AttributeError") /\ UNCHANGED <<tok, cache, stemmed>>
       ELSE /\ tok' = [tok EXCEPT !.text = StrLower(tok.text)]
            /\ ctl' = Down(i, ctl.item)
            /\ UNCHANGED <<frames, cache, err, stemmed>>
    /\ UNCHANGED <<inst, first, value, flags, src, out, runs>>

\* mutant: a text of exactly minsize characters is dropped
StopFilterPasses_Strict(text, stoplist, minsize) ==
    Len(text) > minsize /\ text \notin stoplist

\* StopFilter.__call__: the condition under which the token is yielded
StopFilterPasses(text, stoplist, minsize) ==
    Len(text) >= minsize /\ text \notin stoplist

StopFilterStep ==
    /\ FilterAt("StopFilter")
    /\ LET i == ctl.at IN
       IF ctl.msg = "next" THEN PullUp(i)
       ELSE IF ctl.msg = "stop" THEN Finish(i)
       ELSE IF ~Readable(ctl.item, tok, "text")
       THEN RaiseErr("AttributeError") /\ UNCHANGED <<tok, cache, stemmed>>
       ELSE IF StopFilterPasses(tok.text, StageAt(i).words, StageAt(i).min)
       THEN /\ ctl' = Down(i, ctl.item)
            /\ UNCHANGED <<tok, frames, cache, err, stemmed>>
       ELSE PullUp(i)
    /\ UNCHANGED <<inst, first, value, flags, src, out, runs>>

\* NgramFilter.__call__: for start in xrange(0, len(text) - self.min)
NgramFilterStarts(len, min) == XRange(len - min)

NgramFilterSpans(len, min, max) ==
    NgramLoop(len, NgramFilterStarts(len, min), min, max, 0, min)

\* the assignments of the inner loop body of NgramFilter.__call__
GramToken(t, text, chars, startchar, g) ==
    LET t1 == [t EXCEPT !.text = Slice(text, g.s, g.e), !.has = @ \cup {"text"}]
    IN IF chars
       THEN [t1 EXCEPT !.startchar = startchar + g.s, !.endchar = startchar + g.e,
                       !.has = @ \cup {"startchar", "endchar"}]
       ELSE t1

\* NgramFilter's loops from their k-th yield on, with the locals of frame f
NgramFilterResume(i, f) ==
    LET gs == NgramFilterSpans(Len(f.text), StageAt(i).min, StageAt(i).max)
    IN IF f.k < Len(gs)
       THEN /\ tok' = GramToken(tok, f.text, f.chars, f.oldstart, gs[f.k + 1])
            /\ frames' = [frames EXCEPT ![i] = [f EXCEPT !.pc = "sub", !.k = f.k + 1]]
            /\ ctl' = Down(i, f.item)
            /\ UNCHANGED <<cache, err, stemmed>>
       ELSE /\ frames' = [frames EXCEPT ![i] = [f EXCEPT !.pc = "for"]]
            /\ ctl' = Up(i)
            /\ UNCHANGED <<tok, cache, err, stemmed>>

NgramFilterStep ==
    /\ FilterAt("NgramFilter")
    /\ LET i == ctl.at
           f == frames[i]
       IN IF ctl.msg = "next"
          THEN IF f.pc = "sub" THEN NgramFilterResume(i, f) ELSE PullUp(i)
          ELSE IF ctl.msg = "stop" THEN Finish(i)
          ELSE IF \/ ~Readable(ctl.item, tok, "text")
                  \/ ~Readable(ctl.item, tok, "chars")
                  \/ (tok.chars /\ ~Readable(ctl.item, tok, "startchar"))
          THEN RaiseErr("AttributeError") /\ UNCHANGED <<tok, cache, stemmed>>
          ELSE NgramFilterResume(i, [f EXCEPT !.item = ctl.item, !.text = tok.text,
                                              !.chars = tok.chars,
                                              !.oldstart = tok.startchar, !.k = 0])
    /\ UNCHANGED <<inst, first, value, flags, src, out, runs>>

\* mutant: the all-upper-case test is forgotten
CamelGuard_NoUpper(text) ==
    Len(text) > 0 /\ ~IsLower(text) /\ ~IsDigit(text)

\* CamelFilter: the condition under which the text is split
CamelGuard(text) ==
    Len(text) > 0 /\ ~IsLower(text) /\ ~IsUpper(text) /\ ~IsDigit(text)

\* mutant: the split is guarded as CamelFilter guards it
UnderscoreGuard_Case(text) ==
    Len(text) > 0 /\ ~IsLower(text) /\ ~IsUpper(text) /\ ~IsDigit(text)

\* UnderscoreFilter: the condition under which the text is split
UnderscoreGuard(text) == Len(text) > 0

\* mutant: the differing matches are taken from the last to the first
RECURSIVE Reversed(_)
Reversed(q) == IF q = <<>> THEN <<>> ELSE Append(Reversed(Tail(q)), Head(q))
SubMatches_Reversed(text, ms) ==
    Reversed(SelectSeq(ms, LAMBDA m : Slice(text, m.s, m.e) # text))

\* the matches of the split loop that reach its yield: sub != text
SubMatches(text, ms) == SelectSeq(ms, LAMBDA m : Slice(text, m.s, m.e) # text)

\* the assignments of the split loop's body
\* mutant: the offsets of a sub-word are those of its match in the word
SubToken_NoOldstart(t, text, chars, oldstart, m) ==
    LET t1 == [t EXCEPT !.text = Slice(text, m.s, m.e), !.has = @ \cup {"text"}]
    IN IF chars
       THEN [t1 EXCEPT !.startchar = m.s, !.endchar = m.e,
                       !.has = @ \cup {"startchar", "endchar"}]
       ELSE t1

SubToken(t, text, chars, oldstart, m) ==
    LET t1 == [t EXCEPT !.text = Slice(text, m.s, m.e), !.has = @ \cup {"text"}]
    IN IF chars
       THEN [t1 EXCEPT !.startchar = oldstart + m.s, !.endchar = oldstart + m.e,
                       !.has = @ \cup {"startchar", "endchar"}]
       ELSE t1

\* the split loop from its k-th yield on, over the matches ms
SplitResume(i, f, ms) ==
    LET subs == SubMatches(f.text, ms)
    IN IF f.k < Len(subs)
       THEN /\ tok' = SubToken(tok, f.text, f.chars, f.oldstart, subs[f.k + 1])
            /\ frames' = [frames EXCEPT ![i] = [f EXCEPT !.pc = "sub", !.k = f.k + 1]]
            /\ ctl' = Down(i, f.item)
            /\ UNCHANGED <<cache, err, stemmed>>
       ELSE /\ frames' = [frames EXCEPT ![i] = [f EXCEPT !.pc = "for"]]
            /\ ctl' = Up(i)
            /\ UNCHANGED <<tok, cache, err, stemmed>>

\* the text the camel / underscore filter works on: t.text, read when the
\* generator is resumed after "yield t"
TextAfterYield(f, t) == t.text

\* CamelFilter / UnderscoreFilter after "yield t": text = t.text, the guard,
\* the locals, and the split loop
SplitAfterYield(i, f, guard, ms) ==
    IF ~Readable(f.item, tok, "text")
    THEN RaiseErr("AttributeError") /\ UNCHANGED <<tok, cache, stemmed>>
    ELSE IF ~guard THEN PullUp(i)
    ELSE IF tok.chars /\ ~Readable(f.item, tok, "startchar")
    THEN RaiseErr("AttributeError") /\ UNCHANGED <<tok, cache, stemmed>>
    ELSE SplitResume(i, [f EXCEPT !.text = TextAfterYield(f, tok), !.chars = tok.chars,
                                  !.oldstart = tok.startchar, !.k = 0], ms)

\* "yield t" at the top of the camel / underscore loop body
YieldWhole(i) ==
    /\ frames' = [frames EXCEPT ![i].pc = "yielded", ![i].item = ctl.item]
    /\ ctl' = Down(i, ctl.item)
    /\ UNCHANGED <<tok, cache, err, stemmed>>

CamelFilterStep ==
    /\ FilterAt("CamelFilter")
    /\ LET i == ctl.at
           f == frames[i]
       IN IF ctl.msg = "stop" THEN Finish(i)
          ELSE IF ctl.msg = "item" THEN YieldWhole(i)
          ELSE IF f.pc = "yielded"
          THEN SplitAfterYield(i, f, CamelGuard(TextAfterYield(f, tok)),
                               _camel_exp(TextAfterYield(f, tok)))
          ELSE IF f.pc = "sub" THEN SplitResume(i, f, _camel_exp(f.text))
          ELSE PullUp(i)
    /\ UNCHANGED <<inst, first, value, flags, src, out, runs>>

UnderscoreFilterStep ==
    /\ FilterAt("UnderscoreFilter")
    /\ LET i == ctl.at
           f == frames[i]
       IN IF ctl.msg = "stop" THEN Finish(i)
          ELSE IF ctl.msg = "item" THEN YieldWhole(i)
          ELSE IF f.pc = "yielded"
          THEN SplitAfterYield(i, f, UnderscoreGuard(TextAfterYield(f, tok)),
                               _underscore_exp(TextAfterYield(f, tok)))
          ELSE IF f.pc = "sub" THEN SplitResume(i, f, _underscore_exp(f.text))
          ELSE PullUp(i)
    /\ UNCHANGED <<inst, first, value, flags, src, out, runs>>

\* whoosh.lang.porter.stem: a pure function of the word (here: drops a
\* final "s" of a word longer than one character)
stem(w) ==
    IF Len(w) > 1 /\ w[Len(w)] = "s" THEN SubSeq(w, 1, Len(w) - 1) ELSE w

\* mutant: the stem is entered in the cache as a word of its own as well
CachePut_AlsoStem(c, w, st) == {p \in c : p[1] # w} \cup {<<w, st>>, <<st, st>>}

CacheHas(c, w) == \E p \in c : p[1] = w
CacheGet(c, w) == (CHOOSE p \in c : p[1] = w)[2]
CachePut(c, w, st) == {p \in c : p[1] # w} \cup {<<w, st>>}

\* mutant: the ignore set is not consulted
StemIgnores_Never(ignores, text) == FALSE

\* StemFilter.__call__: text in ignores
StemIgnores(ignores, text) == text \in ignores

\* StemFilter.__call__: what is yielded after a cache miss
StemMissYield(s) == StrItem(s)

StemFilterStep ==
    /\ FilterAt("StemFilter")
    /\ LET i == ctl.at
           x == ctl.item
       IN IF ctl.msg = "next" THEN PullUp(i)
          ELSE IF ctl.msg = "stop" THEN Finish(i)
          ELSE IF ~Readable(x, tok, "stopped")
          THEN RaiseErr("AttributeError") /\ UNCHANGED <<tok, cache, stemmed>>
          ELSE IF tok.stopped
          THEN /\ ctl' = Down(i, x)
               /\ UNCHANGED <<tok, frames, cache, err, stemmed>>
          ELSE IF ~Readable(x, tok, "text")
          THEN RaiseErr("AttributeError") /\ UNCHANGED <<tok, cache, stemmed>>
          ELSE IF StemIgnores(StageAt(i).words, tok.text)
          THEN /\ ctl' = Down(i, x)
               /\ UNCHANGED <<tok, frames, cache, err, stemmed>>
          ELSE IF CacheHas(cache[i], tok.text)
          THEN /\ tok' = [tok EXCEPT !.text = CacheGet(cache[i], tok.text)]
               /\ ctl' = Down(i, x)
               /\ UNCHANGED <<frames, cache, err, stemmed>>
          ELSE LET s == stem(tok.text) IN
               /\ tok' = [tok EXCEPT !.text = s]
               /\ cache' = [cache EXCEPT ![i] = CachePut(@, tok.text, s)]
               /\ stemmed' = Append(stemmed, tok.text)
               /\ ctl' = Down(i, StemMissYield(s))
               /\ UNCHANGED <<frames, err>>
    /\ UNCHANGED <<inst, first, value, flags, src, out, runs>>

\* StemFilter.clear, called between two pulls or two invocations
StemClear ==
    /\ inst.made
    /\ ctl.at = Consumer
    /\ ctl.msg \in {"idle", "stop"}
    /\ \E i \in 2..NStages :
        /\ KindAt(i) = "StemFilter"
        /\ cache[i] # {}
        /\ cache' = [cache EXCEPT ![i] = {}]
    /\ UNCHANGED <<inst, first, value, flags, tok, frames, ctl, src, out, err, runs, stemmed>>

----------------------------------------------------------------------------
(* Inputs *)

\* all texts of at most n characters over the alphabet A
RECURSIVE Strs(_, _)
Strs(A, n) ==
    IF n = 0 THEN {<<>>}
    ELSE LET S == Strs(A, n - 1)
         IN S \cup {Append(x, c) : x \in {y \in S : Len(y) = n - 1}, c \in A}

hello == <<"h","e","l","l","o">>
getProcessedToken ==
    <<"g","e","t","P","r","o","c","e","s","s","e","d","T","o","k","e","n">>
TheQuickFoxJUMPS ==
    <<"T","h","e"," ","Q","u","i","c","k"," ","F","o","x"," ","J","U","M","P","S">>
the_a_is_fox ==
    <<"t","h","e"," ","a"," ","i","s"," ","f","o","x">>

Flag(positions, chars, start_pos, start_char, offs) ==
    [positions |-> positions, chars |-> chars, start_pos |-> start_pos,
     start_char |-> start_char, offs |-> offs]

\* the keyword arguments left at their defaults
DefaultFlags == {Flag(FALSE, FALSE, 0, 0, FALSE)}
\* positions and chars requested, with every start offset up to MaxStart
OffsetFlags ==
    {Flag(TRUE, TRUE, p, c, TRUE) : p \in 0..MaxStart, c \in 0..MaxStart}

\* the traversal of the current invocation ran to its end
Exhausted == inst.made /\ runs > 0 /\ ctl.at = Consumer /\ ctl.msg = "stop"

\* the texts of the Token states in a history
Texts(h) == [j \in 1..Len(h) |-> h[j].text]

\* concatenation of a sequence of sequences
RECURSIVE Flatten(_)
Flatten(ss) == IF ss = <<>> THEN <<>> ELSE Head(ss) \o Flatten(Tail(ss))

IsPrefix(a, b) == Len(a) <= Len(b) /\ \A j \in 1..Len(a) : a[j] = b[j]

----------------------------------------------------------------------------
(* CamelFilter fed directly by the pattern tokenizer *)

CamelInsts == {Pipeline("", Stage("RegexTokenizer"), <<Stage("CamelFilter")>>)}
CamelVals == Strs({"a", "B", "1", " "}, MaxLen) \cup {getProcessedToken}

NextCamel ==
    \/ Construct(CamelInsts)
    \/ Invoke(CamelVals, DefaultFlags \cup OffsetFlags, 1)
    \/ ConsumerPull
    \/ ConsumerTake
    \/ RegexTokenizerStep
    \/ CamelFilterStep

SpecCamel == Init /\ [][NextCamel]_vars


\* the sub-words the claim names for a whole word w: none for an empty,
\* all-lower-case, all-upper-case or all-digit w, else the pattern's matches
\* that differ from w, left to right
CamelParts(w) ==
    IF w = <<>> \/ IsLower(w) \/ IsUpper(w) \/ IsDigit(w) THEN <<>>
    ELSE LET ms == CamelMatches(w, 0)
             ws == [j \in 1..Len(ms) |-> SubSeq(w, ms[j].s + 1, ms[j].e)]
         IN SelectSeq(ws, LAMBDA x : x # w)

\* per tokenizer token: the token itself (part 0), then its sub-words
CamelExpected ==
    Flatten([k \in 1..Len(src) |->
        <<[k |-> k, part |-> 0, text |-> src[k].text]>>
        \o [j \in 1..Len(CamelParts(src[k].text)) |->
               [k |-> k, part |-> j, text |-> CamelParts(src[k].text)[j]]]])

\* C5: with CamelFilter fed directly by the tokenizer and a consumer that only
\* reads, the consumer receives, per tokenizer token, the token exactly as the
\* tokenizer yielded it and then one token per differing pattern match, in
\* match order, only for a text that is neither empty nor all lower-case, all
\* upper-case or all digits; nothing else is received, and nothing is missing
\* when the traversal ends.
C5_CamelSplits ==
    (inst.made /\ runs > 0) =>
        LET E == CamelExpected IN
        /\ err = ""
        /\ Len(out) <= Len(E)
        /\ \A j \in 1..Len(out) :
            /\ out[j].kind = "tok"
            /\ out[j].t.text = E[j].text
            /\ E[j].part = 0 => out[j].t = src[E[j].k]
        /\ Exhausted => Len(out) = Len(E)

\* getProcessedToken was traversed to the end and gave four tokens
C5_Witness ==
    /\ Exhausted
    /\ value = getProcessedToken
    /\ Len(out) = 4
    /\ Texts([j \in 1..Len(out) |-> out[j].t])
         = <<getProcessedToken, <<"g","e","t">>,
             <<"P","r","o","c","e","s","s","e","d">>, <<"T","o","k","e","n">>>>


----------------------------------------------------------------------------
(* StopFilter fed directly by the pattern tokenizer *)

\* stop lists tried: the default, none, and a custom one
StopLists == {Words(STOP_WORDS), NoneWords, Words({<<"n">>, <<"a","a">>, <<"A">>})}

StopInsts ==
    {Pipeline("", Stage("RegexTokenizer"), <<StopFilterInit(sl, m)>>) :
        sl \in StopLists, m \in 0..MaxSize}
    \cup {Pipeline("", Stage("RegexTokenizer"), <<StopFilterInit(Words(STOP_WORDS), 2)>>)}
StopVals == Strs({"a", "n", " "}, MaxLen) \cup {the_a_is_fox}

NextStop ==
    \/ Construct(StopInsts)
    \/ Invoke(StopVals, DefaultFlags \cup OffsetFlags, 1)
    \/ ConsumerPull
    \/ ConsumerTake
    \/ RegexTokenizerStep
    \/ StopFilterStep

SpecStop == Init /\ [][NextStop]_vars

\* the consumer is between two pulls or at the end of the traversal
Settled == inst.made /\ runs > 0 /\ ctl.at = Consumer /\ ctl.msg \in {"idle", "stop"}

\* the Token states among h whose text is long enough and not a stop word
Kept(h, stops, minsize) ==
    SelectSeq(h, LAMBDA t : Len(t.text) >= minsize /\ t.text \notin stops)

\* C7: the tokens StopFilter(stoplist, minsize) emits are exactly the incoming
\* tokens whose text has length >= minsize and is not in the stop set, in
\* their order and with every field as the tokenizer set it.
C7_StopSubsequence ==
    (inst.made /\ runs > 0) =>
        LET E == Kept(src, inst.filters[1].words, inst.filters[1].min) IN
        /\ err = ""
        /\ Len(out) <= Len(E)
        /\ \A j \in 1..Len(out) : out[j].kind = "tok" /\ out[j].t = E[j]
        /\ Settled => Len(out) = Len(E)

\* the default stop filter has removed the, a and is, and kept fox
C7_Witness ==
    /\ Exhausted
    /\ value = the_a_is_fox
    /\ inst.filters[1] = StopFilterInit(Words(STOP_WORDS), 2)
    /\ Len(src) = 4
    /\ Texts([j \in 1..Len(out) |-> out[j].t]) = << <<"f","o","x">> >>

----------------------------------------------------------------------------
(* StandardAnalyzer *)

StandardInsts ==
    {StandardAnalyzerInit(sl, m) : sl \in StopLists, m \in 0..MaxSize}
    \cup {StandardAnalyzerInit(Words(STOP_WORDS), 2)}
StandardVals == Strs({"a", "A", " "}, MaxLen) \cup {TheQuickFoxJUMPS}

NextStandard ==
    \/ Construct(StandardInsts)
    \/ Invoke(StandardVals, DefaultFlags \cup {Flag(TRUE, TRUE, 0, 0, FALSE)}, 1)
    \/ ConsumerPull
    \/ ConsumerTake
    \/ RegexTokenizerStep
    \/ LowerCaseFilterStep
    \/ StopFilterStep
    \/ PassFilterStep

SpecStandard == Init /\ [][NextStandard]_vars

\* the words of a text: its maximal runs of word characters
WordsOf(v) ==
    LET ms == ClassMatches(v, 0, WordChar)
    IN [j \in 1..Len(ms) |-> SubSeq(v, ms[j].s + 1, ms[j].e)]

\* the lowercase forms of the words ws that a stop filter made with
\* (stoplist, minsize) keeps; every word when stoplist is None
StandardExpected(ws, stoplist, minsize) ==
    LET low == [j \in 1..Len(ws) |-> StrLower(ws[j])]
    IN IF ~stoplist.some THEN low
       ELSE SelectSeq(low, LAMBDA w : Len(w) >= minsize /\ w \notin stoplist.set)

\* C8: StandardAnalyzer(stoplist, minsize) emits the lowercase forms of the
\* words of the input that have length >= minsize and, lowercased, are not in
\* the stop set, in order and with none missing at the end; with stoplist =
\* None it emits every lowercased word.
C8_StandardTexts ==
    (inst.made /\ runs > 0) =>
        \A sl \in StopLists, m \in 0..MaxSize :
            inst = StandardAnalyzerInit(sl, m) =>
                LET E == StandardExpected(WordsOf(value), sl, m) IN
                /\ err = ""
                /\ IsPrefix(Texts([j \in 1..Len(out) |-> out[j].t]), E)
                /\ \A j \in 1..Len(out) : out[j].kind = "tok"
                /\ Exhausted => Len(out) = Len(E)

\* "The Quick Fox JUMPS" gave quick, fox, jumps under the defaults
C8_Witness ==
    /\ Exhausted
    /\ value = TheQuickFoxJUMPS
    /\ inst = StandardAnalyzerInit(Words(STOP_WORDS), 2)
    /\ Texts([j \in 1..Len(out) |-> out[j].t])
         = << <<"q","u","i","c","k">>, <<"f","o","x">>, <<"j","u","m","p","s">> >>


----------------------------------------------------------------------------
(* Every tokenizer on its own, with character offsets active *)

\* n-gram sizes tried: every minsize, every maxsize (0: omitted)
GramSizes == {<<a, b>> : a \in 1..MaxSize, b \in 0..MaxSize}

TokenizerInsts ==
    {Pipeline("", Stage(k), <<>>) :
        k \in {"IDTokenizer", "RegexTokenizer", "SpaceSeparatedTokenizer",
               "CommaSeparatedTokenizer"}}
    \cup {Pipeline("", NgramTokenizerInit(g[1], g[2]), <<>>) : g \in GramSizes}
TokenizerVals == Strs({"a", " ", ","}, MaxLen) \cup {hello}

NextTokenizers ==
    \/ Construct(TokenizerInsts)
    \/ Invoke(TokenizerVals, OffsetFlags, 1)
    \/ ConsumerPull
    \/ ConsumerTake
    \/ IDTokenizerStep
    \/ RegexTokenizerStep
    \/ CommaSeparatedTokenizerStep
    \/ NgramTokenizerStep

SpecTokenizers == Init /\ [][NextTokenizers]_vars

\* the spans of the pulled tokens lie inside the input and start in
\* non-decreasing order
SpansInside ==
    /\ \A j \in 1..Len(out) :
        /\ out[j].kind = "tok"
        /\ {"startchar", "endchar"} \subseteq out[j].t.has
        /\ flags.start_char <= out[j].t.startchar
        /\ out[j].t.startchar <= out[j].t.endchar
        /\ out[j].t.endchar <= flags.start_char + Len(value)
    /\ \A j \in 1..(Len(out) - 1) : out[j].t.startchar <= out[j + 1].t.startchar

\* no two pulled spans [startchar, endchar) share a character
SpansDisjoint ==
    \A i, j \in 1..Len(out) :
        i < j => \/ out[i].t.endchar <= out[j].t.startchar
                 \/ out[j].t.endchar <= out[i].t.startchar

\* C9 as stated: for every tokenizer run with offsets active, the spans lie
\* inside the input, start in non-decreasing order, and no two overlap.
C9_Original ==
    (inst.made /\ runs > 0 /\ flags.chars) => SpansInside /\ SpansDisjoint

\* C9 amended: for every tokenizer run with offsets active the spans lie
\* inside the input and start in non-decreasing order; no two spans overlap
\* for the identity, pattern, space-separated and comma-separated tokenizers
\* (the n-gram tokenizer's grams overlap).
C9_Spans ==
    (inst.made /\ runs > 0 /\ flags.chars) =>
        /\ err = ""
        /\ SpansInside
        /\ inst.tokenizer.kind # "NgramTokenizer" => SpansDisjoint

\* the pattern tokenizer gave two separate spans, offset by start_char
C9_Witness ==
    /\ Exhausted
    /\ inst.tokenizer.kind = "RegexTokenizer"
    /\ flags.chars /\ flags.start_char = 1
    /\ Len(out) = 2
    /\ out[1].t.endchar < out[2].t.startchar

----------------------------------------------------------------------------
(* The n-gram components *)

NgramInsts ==
    {Pipeline("", NgramTokenizerInit(g[1], g[2]), <<>>) : g \in GramSizes}
    \cup {Pipeline("", Stage("RegexTokenizer"), <<NgramFilterInit(g[1], g[2])>>) :
            g \in GramSizes}
    \cup {NgramAnalyzerInit(g[1], g[2]) : g \in GramSizes}
    \cup {Pipeline("", NgramTokenizerInit(3, 4), <<>>),
          Pipeline("", Stage("RegexTokenizer"), <<NgramFilterInit(3, 4)>>)}
NgramVals == Strs({"a", "b", " "}, MaxLen) \cup {hello}

NextNgram ==
    \/ Construct(NgramInsts)
    \/ Invoke(NgramVals, DefaultFlags \cup OffsetFlags, 1)
    \/ ConsumerPull
    \/ ConsumerTake
    \/ RegexTokenizerStep
    \/ NgramTokenizerStep
    \/ NgramFilterStep
    \/ LowerCaseFilterStep

SpecNgram == Init /\ [][NextNgram]_vars

\* the n-gram stages of the instance
NgramStages ==
    {StageAt(i) : i \in {j \in 1..NStages : KindAt(j) \in {"NgramTokenizer", "NgramFilter"}}}

ClaimGrams(w, min, max) ==
    Flatten([i \in 1..XRange(Len(w) - min + 1) |->
        LET szs == SelectSeq([n \in 1..XRange(max - min + 1) |-> min + n - 1],
                             LAMBDA z : (i - 1) + z <= Len(w))
        IN [n \in 1..Len(szs) |-> SubSeq(w, i, i - 1 + szs[n])]])

\* C2: NgramTokenizer(minsize, maxsize) on a value emits one token per start
\* i in 0..len - minsize and size in minsize..maxsize with i + size <= len, in
\* that order, with text value[i : i + size].
C2_NgramTokenizerGrams ==
    (Exhausted /\ inst.tokenizer.kind = "NgramTokenizer" /\ inst.filters = <<>>) =>
        LET E == ClaimGrams(value, inst.tokenizer.min, inst.tokenizer.max) IN
        /\ Len(out) = Len(E)
        /\ \A j \in 1..Len(out) :
            /\ out[j].kind = "tok"
            /\ "text" \in out[j].t.has
            /\ out[j].t.text = E[j]

\* what NgramTokenizer(3, 4) does on "hello": four tokens, the spans of hel,
\* hell, ell, ello, none with a text attribute
C2_CodeOnHello ==
    /\ Exhausted
    /\ inst = Pipeline("", NgramTokenizerInit(3, 4), <<>>)
    /\ value = hello /\ flags.chars /\ flags.start_char = 0
    /\ [j \in 1..Len(out) |-> <<out[j].t.startchar, out[j].t.endchar>>]
         = << <<0, 3>>, <<0, 4>>, <<1, 4>>, <<1, 5>> >>
    /\ \A j \in 1..Len(out) : "text" \notin out[j].t.has

\* C3: NgramFilter(minsize, maxsize) replaces each incoming token by one
\* token per gram of its text, for every start i in 0..len - minsize and size
\* in minsize..maxsize with i + size <= len, in that order.
C3_NgramFilterGrams ==
    (Exhausted /\ NStages = 2 /\ KindAt(2) = "NgramFilter") =>
        LET E == Flatten([k \in 1..Len(src) |->
                     ClaimGrams(src[k].text, inst.filters[1].min, inst.filters[1].max)])
        IN /\ Len(out) = Len(E)
           /\ \A j \in 1..Len(out) : out[j].kind = "tok" /\ out[j].t.text = E[j]

\* what NgramFilter(3, 4) does on the token "hello": hel, hell, ell, ello
C3_CodeOnHello ==
    /\ Exhausted
    /\ inst = Pipeline("", Stage("RegexTokenizer"), <<NgramFilterInit(3, 4)>>)
    /\ value = hello
    /\ Texts([j \in 1..Len(out) |-> out[j].t])
         = << <<"h","e","l">>, <<"h","e","l","l">>, <<"e","l","l">>,
              <<"e","l","l","o">> >>


----------------------------------------------------------------------------
(* FancyAnalyzer *)

FancyInsts == {FancyAnalyzerInit(Words(STOP_WORDS), 2), FancyAnalyzerInit(NoneWords, 0)}
FancyVals == Strs({"a", "B", "_", " "}, MaxLen) \cup {getProcessedToken}

NextFancy ==
    \/ Construct(FancyInsts)
    \/ Invoke(FancyVals, DefaultFlags \cup OffsetFlags, 1)
    \/ ConsumerPull
    \/ ConsumerTake
    \/ RegexTokenizerStep
    \/ CamelFilterStep
    \/ LowerCaseFilterStep
    \/ UnderscoreFilterStep
    \/ StopFilterStep

SpecFancy == Init /\ [][NextFancy]_vars

\* the sub-words of a non-empty text w for the underscore filter: the
\* pattern's matches that differ from w
UnderscoreParts(w) ==
    LET ms == CamelMatches(w, 0)
        ws == [j \in 1..Len(ms) |-> SubSeq(w, ms[j].s + 1, ms[j].e)]
    IN SelectSeq(ws, LAMBDA x : x # w)

\* what the fancy chain gives for the words ws when every stage works on the
\* text handed to it: whole word and camel parts, lowercased, each followed
\* by its underscore parts, less the stopped ones
FancyExpected(ws, stops, minsize) ==
    LET cam == Flatten([k \in 1..Len(ws) |-> <<ws[k]>> \o CamelParts(ws[k])])
        low == [j \in 1..Len(cam) |-> StrLower(cam[j])]
        und == Flatten([j \in 1..Len(low) |-> <<low[j]>> \o UnderscoreParts(low[j])])
    IN SelectSeq(und, LAMBDA w : Len(w) >= minsize /\ w \notin stops)

\* C4: in FancyAnalyzer, CamelFilter splits on the text as the tokenizer
\* produced it, whatever LowerCaseFilter does to the shared token between
\* two pulls: the consumer receives, per word, the lowercased whole word and
\* then its lowercased camel-case parts (getProcessedToken gives
\* getprocessedtoken, get, processed, token).
C4_FancyCamel ==
    (Exhausted /\ inst.name = "FancyAnalyzer") =>
        Texts([j \in 1..Len(out) |-> out[j].t])
          = FancyExpected(WordsOf(value), inst.filters[4].words, inst.filters[4].min)

\* what FancyAnalyzer does on getProcessedToken: the lowercased whole word only
C4_CodeOnGetProcessedToken ==
    /\ Exhausted
    /\ inst = FancyAnalyzerInit(Words(STOP_WORDS), 2)
    /\ value = getProcessedToken
    /\ Texts([j \in 1..Len(out) |-> out[j].t]) = <<StrLower(getProcessedToken)>>


----------------------------------------------------------------------------
(* StemFilter fed directly by the pattern tokenizer; the instance is       *)
(* invoked several times and its cache cleared in between                  *)

StemInsts ==
    {Pipeline("", Stage("RegexTokenizer"), <<StemFilterInit(ig)>>) :
        ig \in {NoneWords, Words({<<"a","s">>})}}
StemVals == Strs({"a", "s", " "}, MaxChainLen)

NextStem ==
    \/ Construct(StemInsts)
    \/ Invoke(StemVals, DefaultFlags, MaxRuns)
    \/ ConsumerPull
    \/ ConsumerTake
    \/ RegexTokenizerStep
    \/ StemFilterStep
    \/ StemClear

SpecStem == Init /\ [][NextStem]_vars

\* C6: StemFilter behaves as a stemmer without a cache: every token that is
\* neither stopped nor ignored is emitted as a token whose text is the stem
\* of the incoming text, on a cache miss as on a cache hit, and every cache
\* entry (w, s) has s = stem(w).
C6_StemAsUncached ==
    (inst.made /\ runs > 0 /\ NStages = 2 /\ KindAt(2) = "StemFilter") =>
        /\ \A j \in 1..Len(out) :
            /\ out[j].kind = "tok"
            /\ out[j].t.text = IF src[j].stopped \/ src[j].text \in inst.filters[1].words
                               THEN src[j].text
                               ELSE stem(src[j].text)
        /\ \A p \in cache[2] : p[2] = stem(p[1])

\* what StemFilter does for the same word twice: the first occurrence (a
\* miss) is emitted as a bare str, the second (a hit) as the Token
C6_CodeMissThenHit ==
    /\ Len(out) = 2
    /\ src[1].text = src[2].text
    /\ out[1].kind = "str" /\ out[1].val = stem(src[1].text)
    /\ out[2].kind = "tok" /\ out[2].t.text = stem(src[2].text)

----------------------------------------------------------------------------
(* The pattern tokenizer followed by any chain of at most two filters *)

ChainFilters ==
    {Stage("PassFilter"), Stage("LowerCaseFilter"), Stage("CamelFilter"),
     Stage("UnderscoreFilter"), StopFilterInit(Words(STOP_WORDS), 2),
     NgramFilterInit(1, 2), StemFilterInit(NoneWords)}
ChainInsts ==
    {Pipeline("", Stage("RegexTokenizer"), fs) : fs \in Strs(ChainFilters, 2)}
    \cup {Pipeline("", NgramTokenizerInit(1, 2), fs) : fs \in Strs({Stage("PassFilter")}, 1)}
\* two words of which StopFilter(minsize = 2) removes the first
s_ss == <<"s", " ", "s", "s">>
\* two words of which it removes the second
ss_s == <<"s", "s", " ", "s">>
ChainVals == Strs({"s", "B", " "}, MaxChainLen) \cup {s_ss, ss_s}
\* the keyword arguments at their defaults, or positions and chars requested
\* with both start offsets at MaxStart
ChainFlags == DefaultFlags \cup {Flag(TRUE, TRUE, MaxStart, MaxStart, TRUE)}

NextChain ==
    \/ Construct(ChainInsts)
    \/ Invoke(ChainVals, ChainFlags, 1)
    \/ ConsumerPull
    \/ ConsumerTake
    \/ RegexTokenizerStep
    \/ NgramTokenizerStep
    \/ PassFilterStep
    \/ LowerCaseFilterStep
    \/ StopFilterStep
    \/ NgramFilterStep
    \/ CamelFilterStep
    \/ UnderscoreFilterStep
    \/ StemFilterStep

SpecChain == Init /\ [][NextChain]_vars

\* C1: every element a generator of the pipeline hands on, and so every
\* element the consumer pulls, is the Token the tokenizer constructed for
\* the invocation, never a bare value.  (A tokenizer constructs exactly one
\* Token per invocation and no filter constructs any, so an element is either
\* that Token or a str.)
C1_SingleInstance ==
    /\ \A j \in 1..Len(out) : out[j].kind = "tok"
    /\ ctl.msg = "item" => ctl.item.kind = "tok"

\* what a chain ending in StemFilter hands the consumer on a cache miss
C1_CodeBareStr ==
    /\ Len(out) = 1
    /\ KindAt(NStages) = "StemFilter"
    /\ out[1].kind = "str"

----------------------------------------------------------------------------
(* The analyzers, invoked more than once on one instance *)

MaxAgainLen == 2

AgainInsts ==
    {IDAnalyzerInit(FALSE), IDAnalyzerInit(TRUE), SpaceSeparatedAnalyzerInit,
     CommaSeparatedAnalyzerInit, SimpleAnalyzerInit,
     StandardAnalyzerInit(Words(STOP_WORDS), 2),
     FancyAnalyzerInit(Words(STOP_WORDS), 2), NgramAnalyzerInit(1, 2),
     Pipeline("", Stage("RegexTokenizer"), <<StemFilterInit(NoneWords)>>)}
AgainVals == Strs({"s", "B", " ", ","}, MaxAgainLen)
\* positions and chars requested; start_pos and start_char left out, or
\* passed as MaxStart
AgainFlags == {Flag(TRUE, TRUE, 0, 0, FALSE), Flag(TRUE, TRUE, MaxStart, MaxStart, TRUE)}

NextAgain ==
    \/ Construct(AgainInsts)
    \/ Invoke(AgainVals, AgainFlags, 1)
    \/ InvokeAgain(AgainVals, AgainFlags, MaxRuns)
    \/ ConsumerPull
    \/ ConsumerTake
    \/ IDTokenizerStep
    \/ RegexTokenizerStep
    \/ CommaSeparatedTokenizerStep
    \/ NgramTokenizerStep
    \/ LowerCaseFilterStep
    \/ StopFilterStep
    \/ CamelFilterStep
    \/ UnderscoreFilterStep
    \/ StemFilterStep

SpecAgain == Init /\ [][NextAgain]_vars

\* the Token state t with its position moved by p and its span by c
Shifted(t, p, c) ==
    [t EXCEPT !.pos = @ + p, !.startchar = @ + c, !.endchar = @ + c]

\* C11: an analyzer invoked with positions and chars and with start_pos = p,
\* start_char = c accepts the call and emits what it emits on the same text
\* with both left at 0: the same elements, every pos increased by p and
\* every startchar and endchar increased by c.  (The first invocation, with
\* the offsets at 0 and traversed to its end, is the reference.)
C11_StartOffsets ==
    (/\ first.set /\ first.done /\ first.value = value
     /\ first.flags = Flag(TRUE, TRUE, 0, 0, FALSE)
     /\ flags.offs
     /\ KindAt(NStages) # "StemFilter")
    => /\ err # "TypeError"
       /\ Len(out) <= Len(first.out)
       /\ \A j \in 1..Len(out) :
            /\ out[j].kind = first.out[j].kind
            /\ out[j].val = first.out[j].val
            /\ out[j].t = Shifted(first.out[j].t, flags.start_pos, flags.start_char)
       /\ Exhausted => Len(out) = Len(first.out)

\* what NgramAnalyzer does when it is passed start_pos and start_char
C11_CodeTypeError ==
    /\ inst.name = "NgramAnalyzer"
    /\ flags.offs
    /\ err = "TypeError"

\* the four values the claim compares, as a consumer reads them off an
\* element it has pulled
FourFields(e) == <<e.t.text, e.t.pos, e.t.startchar, e.t.endchar>>

\* C12: invoking an instance again on the text and flags of its first
\* invocation (which a fresh instance served), whether that one was traversed
\* to its end or abandoned after some pulls, yields the same sequence of
\* text, pos, startchar and endchar values; in a pipeline with a StemFilter
\* too, where only the cache differs between the two.
C12_Reinvocation ==
    (first.set /\ first.value = value /\ first.flags = flags)
    => /\ \A j \in 1..Len(out) :
            j <= Len(first.out) =>
                /\ out[j].kind = "tok"
                /\ first.out[j].kind = "tok"
                /\ {"text", "pos", "startchar", "endchar"} \subseteq out[j].t.has
                /\ FourFields(out[j]) = FourFields(first.out[j])
       /\ (Len(out) > Len(first.out)) => ~first.done
       /\ (Exhausted /\ first.done) => (Len(out) = Len(first.out) /\ first.err = "")

\* what Regex -> StemFilter gives for the same text: a str on the first
\* invocation (cache miss), the Token on the second (cache hit)
C12_CodeStrThenToken ==
    /\ first.set /\ first.value = value /\ first.flags = flags
    /\ Len(first.out) >= 1 /\ Len(out) >= 1
    /\ first.out[1].kind = "str"
    /\ out[1].kind = "tok"
    /\ out[1].t.text = first.out[1].val

----------------------------------------------------------------------------
(* RegexTokenizer -> UnderscoreFilter *)

get_processed_token ==
    <<"g","e","t","_","p","r","o","c","e","s","s","e","d","_","t","o","k","e","n">>

UnderscoreInsts ==
    {Pipeline("", Stage("RegexTokenizer"), <<Stage("UnderscoreFilter")>>)}
UnderscoreVals == Strs({"a", "B", "_", " "}, MaxLen) \cup {get_processed_token}

NextUnderscore ==
    \/ Construct(UnderscoreInsts)
    \/ Invoke(UnderscoreVals, DefaultFlags \cup OffsetFlags, 1)
    \/ ConsumerPull
    \/ ConsumerTake
    \/ RegexTokenizerStep
    \/ UnderscoreFilterStep

SpecUnderscore == Init /\ [][NextUnderscore]_vars

\* per tokenizer token: the token itself (part 0), then the pattern matches
\* of its text that differ from it, whatever the case of its letters
UnderscoreExpected ==
    Flatten([k \in 1..Len(src) |->
        <<[k |-> k, part |-> 0, text |-> src[k].text]>>
        \o [j \in 1..Len(UnderscoreParts(src[k].text)) |->
               [k |-> k, part |-> j, text |-> UnderscoreParts(src[k].text)[j]]]])

\* C13: UnderscoreFilter hands on each incoming token unchanged first and
\* then, for every non-empty text and whatever its case, one token per
\* pattern match that differs from the whole word, left to right;
\* get_processed_token gives get_processed_token, get, processed, token, and a
\* text the pattern matches as one piece gives the whole word only.
C13_UnderscoreSplits ==
    (inst.made /\ runs > 0) =>
        LET E == UnderscoreExpected IN
        /\ err = ""
        /\ Len(out) <= Len(E)
        /\ \A j \in 1..Len(out) :
            /\ out[j].kind = "tok"
            /\ out[j].t.text = E[j].text
            /\ E[j].part = 0 => out[j].t = src[E[j].k]
        /\ Exhausted => Len(out) = Len(E)
        /\ (Exhausted /\ value = get_processed_token) =>
              [j \in 1..Len(out) |-> out[j].t.text] =
                  <<get_processed_token, <<"g","e","t">>,
                    <<"p","r","o","c","e","s","s","e","d">>,
                    <<"t","o","k","e","n">>>>
        /\ (Exhausted /\ value \in {<<"a", "a">>, <<"B", "a">>}) => Len(out) = 1

\* get_processed_token was traversed to the end and gave four tokens
C13_Witness ==
    /\ Exhausted
    /\ value = get_processed_token
    /\ Len(out) = 4
    /\ out[4].t.text = <<"t","o","k","e","n">>

----------------------------------------------------------------------------
(* Claims about every pipeline, checked under SpecChain *)

\* the spans the tokenizer of the instance extracts from the value, in the
\* order it yields them
TokenizerSpans ==
    IF inst.tokenizer.kind = "NgramTokenizer"
    THEN NgramTokenizerSpans(Len(value), inst.tokenizer.min, inst.tokenizer.max)
    ELSE Expression(inst.tokenizer.kind, value)

\* the substring the tokenizer extracted for its k-th token
Extracted(k) == Slice(value, TokenizerSpans[k].s, TokenizerSpans[k].e)

\* C14: at every pull, the original of the token the consumer receives is
\* the substring the tokenizer extracted for the tokenizer token it derives
\* from (the last one the tokenizer yielded), whatever the filters did to
\* text, startchar and endchar.
C14_OriginalKept ==
    \A j \in 1..Len(out) :
        out[j].kind = "tok" =>
            /\ "original" \in out[j].t.has
            /\ out[j].k \in 1..Len(TokenizerSpans)
            /\ out[j].t.original = Extracted(out[j].k)

\* what the n-gram tokenizer hands on: a Token on which original (and text)
\* was never assigned
C14_CodeNoOriginal ==
    /\ inst.tokenizer.kind = "NgramTokenizer"
    /\ Len(out) >= 1
    /\ out[1].kind = "tok"
    /\ "original" \notin out[1].t.has

\* the span the tokenizer gave its k-th token, as offsets of this invocation
ParentSpan(k) ==
    [s |-> flags.start_char + TokenizerSpans[k].s,
     e |-> flags.start_char + TokenizerSpans[k].e]

\* the pulled elements that are the Token
TokenPulls == {j \in 1..Len(out) : out[j].kind = "tok"}

\* the kinds of the filters of the instance
FilterKinds == {inst.filters[i].kind : i \in 1..Len(inst.filters)}

C16_Positions ==
    (inst.made /\ runs > 0 /\ flags.positions) =>
        /\ Len(src) <= Len(TokenizerSpans)
        /\ \A k \in 1..Len(src) :
            /\ "pos" \in src[k].has
            /\ src[k].pos =
                 IF inst.tokenizer.kind = "NgramTokenizer"
                 THEN flags.start_pos + TokenizerSpans[k].s
                 ELSE flags.start_pos + (k - 1)
        /\ src # <<>> => tok.pos = src[Len(src)].pos
        /\ \A j \in TokenPulls :
            /\ "pos" \in out[j].t.has
            /\ out[j].k >= 1
            /\ out[j].t.pos = src[out[j].k].pos
        /\ \A i, j \in TokenPulls : i < j => out[i].t.pos <= out[j].t.pos

\* behind StopFilter alone: the first of two words was removed and the
\* second arrived with its own number, one more than start_pos
C16_Witness ==
    /\ Exhausted
    /\ flags.positions
    /\ FilterKinds = {"StopFilter"}
    /\ Len(src) = 2
    /\ Len(out) = 1
    /\ out[1].t.pos = flags.start_pos + 1

----------------------------------------------------------------------------
(* StemFilter fed tokens that are stopped or ignored *)

SkipInsts ==
    {Pipeline("", Stage("RegexTokenizer"),
              <<MarkStoppedInit(st), StemFilterInit(ig)>>) :
        st \in {{}, {<<"a">>, <<"s","s">>}},
        ig \in {Words({<<"a","s">>, <<"s">>})}}
SkipVals == Strs({"a", "s", " "}, MaxChainLen)

NextSkip ==
    \/ Construct(SkipInsts)
    \/ Invoke(SkipVals, DefaultFlags, MaxRuns)
    \/ ConsumerPull
    \/ ConsumerTake
    \/ RegexTokenizerStep
    \/ MarkStoppedStep
    \/ StemFilterStep

SpecSkip == Init /\ [][NextSkip]_vars

\* a StemFilter has just been handed the Token, and the Token is stopped or
\* its text is in the filter's ignore set
StemHandedSkipped ==
    /\ FilterAt("StemFilter")
    /\ ctl.msg = "item"
    /\ ctl.item.kind = "tok"
    /\ {"stopped", "text"} \subseteq tok.has
    /\ (tok.stopped \/ tok.text \in StageAt(ctl.at).words)

\* C17: a token that reaches StemFilter stopped, or with a text in the ignore
\* set, is handed on as the Token with every field as it came; stem is not
\* called, and the cache is the same after as before.
C17_StemLeavesAlone ==
    [][StemHandedSkipped =>
         /\ tok' = tok
         /\ cache' = cache
         /\ stemmed' = stemmed
         /\ err' = err
         /\ ctl' = Down(ctl.at, TokItem)]_vars

\* in one traversal with words already cached the consumer received a token
\* that is stopped and a token whose text is in the ignore set, both as they
\* left the stage before the StemFilter
C17_Witness ==
    /\ Exhausted
    /\ runs = 2
    /\ cache[3] # {}
    /\ Len(out) = 2
    /\ out[1].kind = "tok" /\ out[1].t.stopped /\ out[1].t.text = <<"a">>
    /\ out[2].kind = "tok" /\ ~out[2].t.stopped /\ out[2].t.text = <<"s">>
    /\ out[2].t.text \in inst.filters[2].words
    /\ stemmed = <<>>

\* a occurs in b as a run of consecutive characters
IsSubstr(a, b) ==
    \E i \in 0..(Len(b) - Len(a)) : SubSeq(b, i + 1, i + Len(a)) = a

\* word w was cut, up to case, from one of the tokens the tokenizer has
\* yielded so far
FromYielded(w) ==
    \E k \in 1..Len(src) :
        /\ k <= Len(TokenizerSpans)
        /\ IsSubstr(StrLower(w), StrLower(Extracted(k)))

\* the expansions the loop of frame f of filter i runs over
Expansions(i, f) ==
    IF KindAt(i) = "NgramFilter"
    THEN NgramFilterSpans(Len(f.text), StageAt(i).min, StageAt(i).max)
    ELSE SubMatches(f.text, _camel_exp(f.text))

\* between pulls nothing has run ahead of the consumer
PulledOnly ==
    (inst.made /\ runs > 0) =>
        \* a generator that was never resumed has not asked its upstream
        /\ \A i \in 2..NStages : frames[i].pc = "start" => frames[i - 1].pc = "start"
        /\ frames[1].pc = "start" => src = <<>>
        /\ \A i \in 2..NStages : frames[i].pc = "start" => cache[i] = {}
        \* the consumer has stopped after Len(out) pulls
        /\ (ctl.at = Consumer /\ ctl.msg = "idle") =>
              /\ out = <<>> => src = <<>>
              /\ \A i \in 2..NStages : Cardinality(cache[i]) <= Len(out)
              /\ out # <<>> =>
                    LET e == out[Len(out)] IN
                    /\ Len(src) = e.k
                    /\ e.k >= 1
                    /\ e.kind = "str" => FromYielded(e.val)
                    /\ (e.kind = "tok" /\ "text" \in e.t.has) =>
                          IsSubstr(StrLower(e.t.text), StrLower(Extracted(e.k)))
        \* words in a StemFilter's cache came from tokens yielded so far
        /\ \A i \in 2..NStages :
              /\ \A p \in cache[i] : FromYielded(p[1])
              /\ KindAt(i) # "StemFilter" => cache[i] = {}
              /\ i = 2 => \A p \in cache[i] : \E k \in 1..Len(src) : src[k].text = p[1]

\* a step that makes the tokenizer yield or fills a cache serves a pull, and
\* a filter inside its expansion loop asks upstream only when the loop is over
PullSteps ==
    /\ (runs > 0 /\ runs' = runs /\ (src' # src \/ cache' # cache \/ tok' # tok)) =>
           ctl.at \in 1..NStages
    /\ (/\ runs' = runs
        /\ ctl.at \in 2..NStages
        /\ KindAt(ctl.at) \in {"CamelFilter", "UnderscoreFilter", "NgramFilter"}
        /\ frames[ctl.at].pc = "sub"
        /\ ctl'.at = ctl.at - 1) =>
           /\ ctl.msg = "next"
           /\ frames[ctl.at].k >= Len(Expansions(ctl.at, frames[ctl.at]))

\* C18: a stage advances its upstream only while it serves a pull from
\* downstream, and not before the loop over the token it is expanding is
\* over; so when the consumer stops after k pulls the tokenizer has yielded
\* no token beyond the one the k-th element was made from, and a StemFilter's
\* cache holds only words of tokens that reached it during those pulls.
C18_PullDiscipline == []PulledOnly /\ [][PullSteps]_vars

\* the consumer stopped after one pull of two: the tokenizer has yielded one
\* token and the StemFilter has cached that one word
C18_Witness ==
    /\ inst.made /\ runs > 0
    /\ ctl.at = Consumer /\ ctl.msg = "idle"
    /\ NStages = 2 /\ KindAt(2) = "StemFilter"
    /\ Len(TokenizerSpans) = 2
    /\ Len(out) = 1
    /\ Len(src) = 1
    /\ cache[2] = {<<src[1].text, stem(src[1].text)>>}

----------------------------------------------------------------------------
(* RegexTokenizer -> CamelFilter and / or UnderscoreFilter, with chars *)

\* the split filters in either order or alone, LowerCaseFilter after the
\* first of them or at the end or absent; and FancyAnalyzer
SplitChains ==
    LET C == Stage("CamelFilter")
        U == Stage("UnderscoreFilter")
        L == Stage("LowerCaseFilter")
    IN {<<C>>, <<U>>, <<C, L>>, <<U, L>>, <<C, U>>, <<U, C>>,
        <<C, L, U>>, <<U, L, C>>, <<C, U, L>>, <<U, C, L>>}
SplitInsts ==
    {Pipeline("", Stage("RegexTokenizer"), fs) : fs \in SplitChains}
    \cup {FancyAnalyzerInit(Words(STOP_WORDS), 2)}
SplitVals ==
    Strs({"a", "B", "_", " "}, MaxLen)
    \cup {getProcessedToken, get_processed_token,
          <<"a", "1", "B">>, <<"1", "_", "a", "B", "1">>, <<"B", " ", "a", "1", "_", "B", "B">>}
SplitFlags == {Flag(TRUE, TRUE, MaxStart, MaxStart, TRUE)}

NextSplit ==
    \/ Construct(SplitInsts)
    \/ Invoke(SplitVals, SplitFlags, 1)
    \/ ConsumerPull
    \/ ConsumerTake
    \/ RegexTokenizerStep
    \/ CamelFilterStep
    \/ UnderscoreFilterStep
    \/ LowerCaseFilterStep
    \/ StopFilterStep

SpecSplit == Init /\ [][NextSplit]_vars

\* C19: behind the pattern tokenizer with chars active and CamelFilter and / or
\* UnderscoreFilter (with or without LowerCaseFilter, as in FancyAnalyzer),
\* every token the consumer receives has startchar <= endchar, a span inside
\* the span of its parent token, and a text equal, up to case, to the input
\* between startchar - start_char and endchar - start_char.
C19_DerivedOffsets ==
    (inst.made /\ runs > 0 /\ flags.chars) =>
        /\ err = ""
        /\ \A j \in 1..Len(out) :
            LET t == out[j].t IN
            /\ out[j].kind = "tok"
            /\ {"text", "startchar", "endchar"} \subseteq t.has
            /\ t.startchar <= t.endchar
            /\ out[j].k \in 1..Len(TokenizerSpans)
            /\ ParentSpan(out[j].k).s <= t.startchar
            /\ t.endchar <= ParentSpan(out[j].k).e
            /\ t.startchar - flags.start_char >= 0
            /\ StrLower(Slice(value, t.startchar - flags.start_char,
                              t.endchar - flags.start_char)) = StrLower(t.text)

\* a run of digits that begins and ends inside the second word was received,
\* behind both split filters
C19_Witness ==
    /\ Exhausted
    /\ flags.chars /\ flags.start_char > 0
    /\ {"CamelFilter", "UnderscoreFilter"} \subseteq FilterKinds
    /\ \E j \in 1..Len(out) :
         /\ out[j].k = 2
         /\ out[j].t.startchar > ParentSpan(2).s
         /\ out[j].t.endchar < ParentSpan(2).e
         /\ IsDigit(out[j].t.text)

\* C20 as claimed: after a traversal that ran to its end, every reference the
\* consumer kept shows the same field values, those of the state emitted
\* last, and inspecting them raises no error (each is the Token).
C20_Original ==
    (Exhausted /\ out # <<>>) =>
        /\ \A j \in 1..Len(out) : out[j].kind = "tok"
        /\ tok = out[Len(out)].t

\* C20: after a traversal that ran to its end, the references the consumer
\* kept to the Token all show the Token's final state.  Its original, pos and
\* stopped are those of the token the tokenizer yielded last.  In a pipeline
\* without a filter that removes (StopFilter, NgramFilter) the final state
\* is the state emitted last; behind such a filter it may be a later token or
\* sub-word that was removed and never received.
C20_FinalState ==
    (Exhausted /\ out # <<>>) =>
        LET e == out[Len(out)] IN
        /\ e.k >= 1 /\ e.k <= Len(src)
        /\ tok.original = src[Len(src)].original
        /\ tok.pos = src[Len(src)].pos
        /\ tok.stopped = src[Len(src)].stopped
        /\ tok.has \ {"text"} = src[Len(src)].has \ {"text"}
        /\ FilterKinds \cap {"StopFilter", "NgramFilter"} = {} =>
              /\ e.k = Len(src)
              /\ e.kind = "tok" => tok = e.t
              /\ e.kind = "str" => tok.text = e.val

\* behind StopFilter alone, "ss s" was traversed: ss was received, s was
\* removed, and the kept reference now shows s
C20_Witness ==
    /\ Exhausted
    /\ FilterKinds = {"StopFilter"}
    /\ value = ss_s
    /\ Len(out) = 1
    /\ out[1].kind = "tok"
    /\ out[1].t.text = <<"s", "s">>
    /\ tok.text = <<"s">>

====
